---- MODULE Spec2Model ----
(***************************************************************************)
(* Model of pyocd/board/board.py: the Board class.                         *)
(*                                                                         *)
(* Two specifications share the variables:                                 *)
(*   SpecNew  Board construction (Board.__init__) against the global       *)
(*            TARGET registry and the session options;                     *)
(*   Spec     the init()/uninit() lifecycle of one constructed Board.      *)
(*                                                                         *)
(* Python strings that are case-converted are sequences of one-character   *)
(* strings; every other Python object is an atom (a TLA+ string).          *)
(***************************************************************************)
EXTENDS Integers, Sequences, FiniteSets, TLC

VARIABLES
    TARGET,            \* the global registry: identifier -> constructor
    managed_ci,        \* whether the managed pack source matches names case-insensitively
    options,           \* session.options
    session_delegate,  \* session.delegate
    has_board,         \* a Board object is available to the caller
    _target_type,      \* Board._target_type
    _test_binary,      \* Board._test_binary
    _delegate,         \* Board._delegate
    _inited,           \* Board._inited
    target,            \* Board.target: the constructor that built it
    lastOp,            \* the Board operation that ran last
    arg,               \* the argument of that operation
    env,               \* what the collaborators of that operation did when called
    calls,             \* the collaborator calls that operation made, in order
    log,               \* the log records that operation emitted, in order
    raised,            \* the exception that operation raised to its caller
    probe,             \* session.probe
    ret,               \* the value the last property read returned
    disconnects,       \* target.disconnect calls since the last successful target.init
    ready              \* target.init succeeded since construction / last successful disconnect

vars == <<TARGET, managed_ci, options, session_delegate, has_board, _target_type,
          _test_binary, _delegate, _inited, target, lastOp, arg, env, calls,
          log, raised, probe, ret, disconnects, ready>>

----------------------------------------------------------------------------
(* Bounds *)

\* longest free-form target-type string the caller passes
MaxLen == 2
\* target.disconnect calls counted between two successful target.init calls
MaxDisconnects == 3

----------------------------------------------------------------------------
(* Python values *)

None == "None"

\* the target argument left out (target=None); no character string equals it
NoTarget == <<"<None>">>

cortex_m == <<"c", "o", "r", "t", "e", "x", "_", "m">>

Alphabet == {"a", "A", "b"}

RECURSIVE StringsUpTo(_)
StringsUpTo(n) ==
    IF n = 0 THEN {<<>>}
    ELSE LET shorter == StringsUpTo(n - 1)
         IN shorter \cup {Append(s, c) : s \in {t \in shorter : Len(t) = n - 1}, c \in Alphabet}

\* the target arguments the caller passes to Board(session, target)
TargetArgs ==
    StringsUpTo(MaxLen)
      \cup {NoTarget, cortex_m,
            <<"C", "O", "R", "T", "E", "X", "_", "M">>,
            <<"C", "o", "r", "t", "e", "x", "_", "M">>}

\* str.lower() on one character
LowerChar(c) ==
    CASE c = "A" -> "a"
      [] c = "B" -> "b"
      [] c = "C" -> "c"
      [] c = "E" -> "e"
      [] c = "F" -> "f"
      [] c = "M" -> "m"
      [] c = "N" -> "n"
      [] c = "O" -> "o"
      [] c = "R" -> "r"
      [] c = "T" -> "t"
      [] c = "X" -> "x"
      [] OTHER -> c

\* str.lower()
Lower(s) == [i \in DOMAIN s |-> LowerChar(s[i])]

\* dict.get(key, default)
OptionsGet(opts, key, default) ==
    IF key \in DOMAIN opts THEN opts[key] ELSE default

\* the names a debug probe reports
ACME == <<"A", "C", "M", "E">>

Probe1 == <<"P", "r", "o", "b", "e", "1">>

DefaultProbe == [vendor_name |-> ACME, product_name |-> Probe1]

Call(op, a) == [op |-> op, arg |-> a]

NoExc == [type |-> "none", id |-> <<>>]

Exc(type, id) == [type |-> type, id |-> id]

\* positions of the calls to op in a call sequence
Positions(cs, op) == {i \in DOMAIN cs : cs[i].op = op}

----------------------------------------------------------------------------
(* Collaborators of the constructor: the pack loaders and the registry *)

\* the registry as imported: the built-in targets
BuiltinTargets == (cortex_m :> "builtin") @@ (<<"a">> :> "builtin")

\* explicit pack sources a session can name, and the definitions each holds
Packs == {"pack_a", "pack_bad"}

PackContents(pack) ==
    IF pack = "pack_a" THEN {<<"a">>, <<"b">>} ELSE {}

\* the part numbers the managed pack cache holds
ManagedParts == {<<"b">>, <<"a", "b">>}

\* PackTargets.populate_targets_from_pack(pack): merge every definition of
\* the pack into the registry, a pack definition replacing a registered one;
\* a malformed pack raises and leaves the registry alone
populate_targets_from_pack(reg, pack) ==
    IF pack = "pack_bad"
    THEN [raised |-> Exc("PackFormatError", <<>>), TARGET |-> reg]
    ELSE [raised |-> NoExc,
          TARGET |-> [id \in DOMAIN reg \cup PackContents(pack) |->
                        IF id \in PackContents(pack) THEN pack ELSE reg[id]]]

\* ManagedPacks.populate_target(name): merge the managed definitions whose
\* part number matches the queried name; finding none is no error
populate_target(reg, name, ci) ==
    LET found == {p \in ManagedParts : IF ci THEN Lower(name) = p ELSE name = p}
    IN [id \in DOMAIN reg \cup found |->
          IF id \in DOMAIN reg THEN reg[id] ELSE "managed"]

\* outcomes of calling a registered constructor with the session
CtorOutcomes == {"ok", "KeyError", "Error"}

----------------------------------------------------------------------------
(* Board.__init__ *)

\* lines 34-35
DefaultTarget(tgt) == IF tgt = NoTarget THEN cortex_m ELSE tgt

\* line 37
NormalizedType(tgt) == Lower(tgt)

\* line 43
HasPack(opts) == ("pack" \in DOMAIN opts) /\ (opts["pack"] # None)

\* slip: the managed source is asked whether or not the identifier is known
NeedsManaged_always(tt, reg) == TRUE

\* line 47
NeedsManaged(tt, reg) == tt \notin DOMAIN reg

\* line 48: the name handed to the managed pack source
ManagedQuery(tgt, tt) == tgt

\* slip: the KeyError of a missing identifier is left to propagate as it is
CaughtAsMissing_nothing(type) == FALSE

\* line 53: the except clause around the lookup and the constructor call
CaughtAsMissing(type) == type = "KeyError"

\* slip: the comparison is made against a misspelt identifier
WarnsGeneric_misspelt(tt) == tt = <<"c", "o", "r", "t", "e", "x", "-", "m">>

\* line 62
WarnsGeneric(tt) == tt = cortex_m

NoBoard(reg, cs, lg, exc) ==
    [has_board |-> FALSE, _target_type |-> NoTarget, _test_binary |-> None,
     _delegate |-> None, _inited |-> FALSE, target |-> None,
     TARGET |-> reg, calls |-> cs, log |-> lg, raised |-> exc]

\* lines 50-68, entered with the registry as the pack loaders left it
CreateTarget(opts, tt, reg, cs, ctor) ==
    LET lookup == Append(cs, Call("TARGET.__getitem__", tt))
    IN IF tt \notin DOMAIN reg
       THEN \* the subscript raises KeyError
            IF CaughtAsMissing("KeyError")
            THEN NoBoard(reg, lookup, <<>>, Exc("TargetSupportError", tt))
            ELSE NoBoard(reg, lookup, <<>>, Exc("KeyError", tt))
       ELSE LET built == Append(lookup, Call("target_class", reg[tt]))
            IN IF ctor # "ok"
               THEN IF CaughtAsMissing(ctor)
                    THEN NoBoard(reg, built, <<>>, Exc("TargetSupportError", tt))
                    ELSE NoBoard(reg, built, <<>>, Exc(ctor, <<>>))
               ELSE [has_board |-> TRUE,
                     _target_type |-> tt,
                     _test_binary |-> OptionsGet(opts, "test_binary", None),
                     _delegate |-> None,
                     _inited |-> FALSE,
                     target |-> reg[tt],
                     TARGET |-> reg,
                     calls |-> Append(built, Call("add_child", reg[tt])),
                     log |-> <<"info">> \o
                             (IF WarnsGeneric(tt) THEN <<"warning">> ELSE <<>>),
                     raised |-> NoExc]

\* lines 46-48
FromManaged(opts, tgt, tt, reg, cs, ci, ctor) ==
    LET tested == Append(cs, Call("TARGET.__contains__", tt))
    IN IF NeedsManaged(tt, reg)
       THEN CreateTarget(opts, tt, populate_target(reg, ManagedQuery(tgt, tt), ci),
                         Append(tested, Call("populate_target", ManagedQuery(tgt, tt))),
                         ctor)
       ELSE CreateTarget(opts, tt, reg, tested, ctor)

\* slip: the explicit pack is loaded only when the identifier is not registered
Board__init___pack_if_missing(opts, tgtArg, reg, ci, ctor) ==
    LET tgt == DefaultTarget(tgtArg)
        tt  == NormalizedType(tgt)
    IN IF HasPack(opts) /\ tt \notin DOMAIN reg
       THEN LET loaded == populate_targets_from_pack(reg, opts["pack"])
                cs == <<Call("populate_targets_from_pack", opts["pack"])>>
            IN IF loaded.raised # NoExc
               THEN NoBoard(loaded.TARGET, cs, <<>>, loaded.raised)
               ELSE FromManaged(opts, tgt, tt, loaded.TARGET, cs, ci, ctor)
       ELSE FromManaged(opts, tgt, tt, reg, <<>>, ci, ctor)

\* lines 30-68: Board(session, target)
Board__init__(opts, tgtArg, reg, ci, ctor) ==
    LET tgt == DefaultTarget(tgtArg)
        tt  == NormalizedType(tgt)
    IN IF HasPack(opts)
       THEN LET loaded == populate_targets_from_pack(reg, opts["pack"])
                cs == <<Call("populate_targets_from_pack", opts["pack"])>>
            IN IF loaded.raised # NoExc
               THEN NoBoard(loaded.TARGET, cs, <<>>, loaded.raised)
               ELSE FromManaged(opts, tgt, tt, loaded.TARGET, cs, ci, ctor)
       ELSE FromManaged(opts, tgt, tt, reg, <<>>, ci, ctor)

----------------------------------------------------------------------------
(* Delegates *)

\* delegate objects a caller can supply, and the hooks each one defines
Delegates == {"d_bare", "d_will", "d_did", "d_both"}

Attrs(d) ==
    CASE d = "d_will" -> {"will_connect"}
      [] d = "d_did" -> {"did_connect"}
      [] d = "d_both" -> {"will_connect", "did_connect"}
      [] OTHER -> {}

hasattr(d, name) == name \in Attrs(d)

----------------------------------------------------------------------------
(* Board.init *)

\* slip: the session's delegate replaces whatever the Board has
AdoptDelegate_always(delegate, sdelegate) ==
    IF sdelegate # None THEN sdelegate ELSE delegate

\* lines 73-74
AdoptDelegate(delegate, sdelegate) ==
    IF (delegate = None) /\ (sdelegate # None) THEN sdelegate ELSE delegate

\* slip: the hook is called on any delegate, whether or not it defines it
CallsHook_unchecked(delegate, hook) == delegate # None

\* lines 77 and 85
CallsHook(delegate, hook) == (delegate # None) /\ hasattr(delegate, hook)

\* slip: the flag is set before the target's init step is known to succeed
InitedAfterTargetInit_early(inited, initOk) == TRUE

\* lines 81-82: the flag once the target's init step has returned or raised
InitedAfterTargetInit(inited, initOk) == IF initOk THEN TRUE ELSE inited

\* slip: a failure of the pre-connect hook is swallowed and init() carries on
init_run_hook_swallowed(delegate, sdelegate, inited, willOk, initOk, didOk) ==
    LET d    == AdoptDelegate(delegate, sdelegate)
        pre  == IF CallsHook(d, "will_connect")
                THEN <<Call("will_connect", <<>>)>> ELSE <<>>
        mid  == Append(pre, Call("target.init", <<>>))
        flag == InitedAfterTargetInit(inited, initOk)
        post == IF CallsHook(d, "did_connect")
                THEN Append(mid, Call("did_connect", <<>>)) ELSE mid
    IN IF ~initOk
       THEN [_delegate |-> d, _inited |-> flag, calls |-> mid,
             raised |-> Exc("TargetInitError", <<>>), target_inited |-> FALSE]
       ELSE IF CallsHook(d, "did_connect") /\ ~didOk
       THEN [_delegate |-> d, _inited |-> flag, calls |-> post,
             raised |-> Exc("DelegateHookError", <<>>), target_inited |-> TRUE]
       ELSE [_delegate |-> d, _inited |-> flag, calls |-> post,
             raised |-> NoExc, target_inited |-> TRUE]

\* slip: the flag is set only after the post-connect hook has returned
init_run_flag_last(delegate, sdelegate, inited, willOk, initOk, didOk) ==
    LET d    == AdoptDelegate(delegate, sdelegate)
        pre  == IF CallsHook(d, "will_connect")
                THEN <<Call("will_connect", <<>>)>> ELSE <<>>
        mid  == Append(pre, Call("target.init", <<>>))
        post == IF CallsHook(d, "did_connect")
                THEN Append(mid, Call("did_connect", <<>>)) ELSE mid
    IN IF CallsHook(d, "will_connect") /\ ~willOk
       THEN [_delegate |-> d, _inited |-> inited, calls |-> pre,
             raised |-> Exc("DelegateHookError", <<>>), target_inited |-> FALSE]
       ELSE IF ~initOk
       THEN [_delegate |-> d, _inited |-> inited, calls |-> mid,
             raised |-> Exc("TargetInitError", <<>>), target_inited |-> FALSE]
       ELSE IF CallsHook(d, "did_connect") /\ ~didOk
       THEN [_delegate |-> d, _inited |-> inited, calls |-> post,
             raised |-> Exc("DelegateHookError", <<>>), target_inited |-> TRUE]
       ELSE [_delegate |-> d, _inited |-> TRUE, calls |-> post,
             raised |-> NoExc, target_inited |-> TRUE]

\* lines 70-86: init(), the hooks and the target's init step each
\* returning (TRUE) or raising (FALSE)
init_run(delegate, sdelegate, inited, willOk, initOk, didOk) ==
    LET d    == AdoptDelegate(delegate, sdelegate)
        pre  == IF CallsHook(d, "will_connect")
                THEN <<Call("will_connect", <<>>)>> ELSE <<>>
        mid  == Append(pre, Call("target.init", <<>>))
        flag == InitedAfterTargetInit(inited, initOk)
        post == IF CallsHook(d, "did_connect")
                THEN Append(mid, Call("did_connect", <<>>)) ELSE mid
    IN IF CallsHook(d, "will_connect") /\ ~willOk
       THEN [_delegate |-> d, _inited |-> inited, calls |-> pre,
             raised |-> Exc("DelegateHookError", <<>>), target_inited |-> FALSE]
       ELSE IF ~initOk
       THEN [_delegate |-> d, _inited |-> flag, calls |-> mid,
             raised |-> Exc("TargetInitError", <<>>), target_inited |-> FALSE]
       ELSE IF CallsHook(d, "did_connect") /\ ~didOk
       THEN [_delegate |-> d, _inited |-> flag, calls |-> post,
             raised |-> Exc("DelegateHookError", <<>>), target_inited |-> TRUE]
       ELSE [_delegate |-> d, _inited |-> flag, calls |-> post,
             raised |-> NoExc, target_inited |-> TRUE]

----------------------------------------------------------------------------
(* Board.uninit *)

\* what target.disconnect can do: return, or raise an exception of a kind
DisconnectOutcomes == {"ok", "Exception", "BaseException"}

\* slip: the guard on the lifecycle flag is missing
uninit_guard_missing(inited) == TRUE

\* line 90
uninit_guard(inited) == inited

\* slip: the default of the option is False
uninit_resume_default_false(opts) == OptionsGet(opts, "resume_on_disconnect", FALSE)

\* line 93
uninit_resume(opts) == OptionsGet(opts, "resume_on_disconnect", TRUE)

\* slip: the flag is cleared whether target.disconnect returned or raised
InitedAfterDisconnect_always(inited, outcome) == FALSE

\* lines 94-95: the flag once target.disconnect has returned or raised
InitedAfterDisconnect(inited, outcome) == IF outcome = "ok" THEN FALSE ELSE inited

\* slip: "except Exception:", which lets a BaseException through
uninit_except_narrow(type) == type = "Exception"

\* line 96: the bare except clause
uninit_except(type) == TRUE

\* lines 88-97: uninit()
uninit_run(inited, opts, outcome) ==
    IF ~uninit_guard(inited)
    THEN [_inited |-> inited, calls |-> <<>>, log |-> <<>>, raised |-> NoExc,
          disconnected |-> FALSE]
    ELSE LET cs   == <<Call("target.disconnect", <<uninit_resume(opts)>>)>>
             flag == InitedAfterDisconnect(inited, outcome)
         IN IF outcome = "ok"
            THEN [_inited |-> flag, calls |-> cs, log |-> <<"debug">>,
                  raised |-> NoExc, disconnected |-> TRUE]
            ELSE IF uninit_except(outcome)
            THEN [_inited |-> flag, calls |-> cs, log |-> <<"debug", "error">>,
                  raised |-> NoExc, disconnected |-> FALSE]
            ELSE [_inited |-> flag, calls |-> cs, log |-> <<"debug">>,
                  raised |-> Exc(outcome, <<>>), disconnected |-> FALSE]

----------------------------------------------------------------------------
(* The caller's operations *)

\* Board(session, target): the whole constructor
NewBoard(tgtArg, ctor) ==
    LET r == Board__init__(options, tgtArg, TARGET, managed_ci, ctor)
    IN /\ TARGET' = r.TARGET
       /\ has_board' = r.has_board
       /\ _target_type' = r._target_type
       /\ _test_binary' = r._test_binary
       /\ _delegate' = r._delegate
       /\ _inited' = r._inited
       /\ target' = r.target
       /\ lastOp' = "__init__"
       /\ arg' = tgtArg
       /\ env' = <<ctor>>
       /\ calls' = r.calls
       /\ log' = r.log
       /\ raised' = r.raised
       /\ disconnects' = 0
       /\ ready' = FALSE
       /\ UNCHANGED <<probe, ret, managed_ci, options, session_delegate>>

\* the caller changed the session; no Board operation is the last one
SessionTouched ==
    /\ lastOp' = "session"
    /\ arg' = <<>>
    /\ env' = <<>>
    /\ calls' = <<>>
    /\ log' = <<>>
    /\ raised' = NoExc

\* session.options[key] = val
SetOption(key, val) ==
    /\ (key \in DOMAIN options) => (options[key] # val)
    /\ options' = [k \in DOMAIN options \cup {key} |->
                     IF k = key THEN val ELSE options[k]]
    /\ SessionTouched
    /\ UNCHANGED <<probe, ret, TARGET, managed_ci, session_delegate, has_board, _target_type,
                   _test_binary, _delegate, _inited, target, disconnects, ready>>

\* del session.options[key]
DelOption(key) ==
    /\ key \in DOMAIN options
    /\ options' = [k \in DOMAIN options \ {key} |-> options[k]]
    /\ SessionTouched
    /\ UNCHANGED <<probe, ret, TARGET, managed_ci, session_delegate, has_board, _target_type,
                   _test_binary, _delegate, _inited, target, disconnects, ready>>

\* session.delegate = d
SetSessionDelegate(d) ==
    /\ session_delegate # d
    /\ session_delegate' = d
    /\ SessionTouched
    /\ UNCHANGED <<probe, ret, TARGET, managed_ci, options, has_board, _target_type,
                   _test_binary, _delegate, _inited, target, disconnects, ready>>

\* lines 107-109: board.delegate = d
SetDelegate(d) ==
    /\ has_board
    /\ _delegate' = d
    /\ lastOp' = "delegate"
    /\ arg' = <<d>>
    /\ env' = <<>>
    /\ calls' = <<>>
    /\ log' = <<>>
    /\ raised' = NoExc
    /\ UNCHANGED <<probe, ret, TARGET, managed_ci, options, session_delegate, has_board,
                   _target_type, _test_binary, _inited, target, disconnects, ready>>

\* lines 70-86: board.init()
init(willOk, initOk, didOk) ==
    LET r == init_run(_delegate, session_delegate, _inited, willOk, initOk, didOk)
    IN /\ has_board
       /\ _delegate' = r._delegate
       /\ _inited' = r._inited
       /\ lastOp' = "init"
       /\ arg' = <<>>
       /\ env' = <<willOk, initOk, didOk>>
       /\ calls' = r.calls
       /\ log' = <<>>
       /\ raised' = r.raised
       /\ disconnects' = IF r.target_inited THEN 0 ELSE disconnects
       /\ ready' = (r.target_inited \/ ready)
       /\ UNCHANGED <<probe, ret, TARGET, managed_ci, options, session_delegate, has_board,
                      _target_type, _test_binary, target>>

\* lines 88-97: board.uninit()
uninit(outcome) ==
    LET r == uninit_run(_inited, options, outcome)
    IN /\ has_board
       /\ (r.calls # <<>>) => (disconnects < MaxDisconnects)
       /\ _inited' = r._inited
       /\ lastOp' = "uninit"
       /\ arg' = <<>>
       /\ env' = <<outcome>>
       /\ calls' = r.calls
       /\ log' = r.log
       /\ raised' = r.raised
       /\ disconnects' = disconnects + Len(r.calls)
       /\ ready' = (ready /\ ~r.disconnected)
       /\ UNCHANGED <<probe, ret, TARGET, managed_ci, options, session_delegate, has_board,
                      _target_type, _test_binary, _delegate, target>>

----------------------------------------------------------------------------
(* Construction: boards are built one after another against the registry *)

PackValues == Packs \cup {None}

InitNew ==
    /\ TARGET = BuiltinTargets
    /\ managed_ci \in BOOLEAN
    /\ options = <<>>
    /\ session_delegate = None
    /\ has_board = FALSE
    /\ _target_type = NoTarget
    /\ _test_binary = None
    /\ _delegate = None
    /\ _inited = FALSE
    /\ target = None
    /\ lastOp = "session"
    /\ arg = <<>>
    /\ env = <<>>
    /\ calls = <<>>
    /\ log = <<>>
    /\ raised = NoExc
    /\ probe = DefaultProbe
    /\ ret = <<>>
    /\ disconnects = 0
    /\ ready = FALSE

NextNew ==
    \/ \E tgtArg \in TargetArgs, ctor \in CtorOutcomes : NewBoard(tgtArg, ctor)
    \/ \E val \in PackValues : SetOption("pack", val)
    \/ DelOption("pack")

SpecNew == InitNew /\ [][NextNew]_vars

----------------------------------------------------------------------------
(* Lifecycle: one Board built with no target type and no pack option *)

Init ==
    LET r == Board__init__(<<>>, NoTarget, BuiltinTargets, TRUE, "ok")
    IN /\ TARGET = r.TARGET
       /\ managed_ci \in BOOLEAN
       /\ options = <<>>
       /\ session_delegate = None
       /\ has_board = r.has_board
       /\ _target_type = r._target_type
       /\ _test_binary = r._test_binary
       /\ _delegate = r._delegate
       /\ _inited = r._inited
       /\ target = r.target
       /\ lastOp = "__init__"
       /\ arg = NoTarget
       /\ env = <<"ok">>
       /\ calls = r.calls
       /\ log = r.log
       /\ raised = r.raised
       /\ probe = DefaultProbe
       /\ ret = <<>>
       /\ disconnects = 0
       /\ ready = FALSE

Next ==
    \/ \E willOk, initOk, didOk \in BOOLEAN : init(willOk, initOk, didOk)
    \/ \E outcome \in DisconnectOutcomes : uninit(outcome)
    \/ \E d \in Delegates \cup {None} : SetDelegate(d)
    \/ \E d \in Delegates \cup {None} : SetSessionDelegate(d)
    \/ \E val \in BOOLEAN : SetOption("resume_on_disconnect", val)
    \/ DelOption("resume_on_disconnect")

Spec == Init /\ [][Next]_vars

----------------------------------------------------------------------------
(* Board.description *)

\* the literal "Generic board via " of line 129
GenericBoardVia ==
    <<"G", "e", "n", "e", "r", "i", "c", " ", "b", "o", "a", "r", "d", " ",
      "v", "i", "a", " ">>

\* slip: the blank before the opening bracket is left out
description_no_blank(vendor, product, tt) ==
    GenericBoardVia \o vendor \o <<" ">> \o product \o <<"[">> \o tt \o <<"]">>

\* lines 127-130
description_str(vendor, product, tt) ==
    GenericBoardVia \o vendor \o <<" ">> \o product \o <<" ", "[">> \o tt \o <<"]">>

\* lines 127-130: reading board.description
description ==
    /\ has_board
    /\ ret' = description_str(probe.vendor_name, probe.product_name, _target_type)
    /\ lastOp' = "description"
    /\ arg' = <<>>
    /\ env' = <<>>
    /\ calls' = <<>>
    /\ log' = <<>>
    /\ raised' = NoExc
    /\ UNCHANGED <<TARGET, managed_ci, options, session_delegate, has_board,
                   _target_type, _test_binary, _delegate, _inited, target, probe,
                   disconnects, ready>>

nrf52 == <<"n", "r", "f", "5", "2">>

\* the registry with a device target next to the built-in ones
DeviceTargets == BuiltinTargets @@ (nrf52 :> "builtin")

\* target arguments that resolve in that registry
DeviceRequests == {NoTarget, <<"A">>, nrf52, <<"N", "R", "F", "5", "2">>}

ProbeNames == StringsUpTo(MaxLen) \cup {ACME, Probe1}

\* one Board built for a registered target, on a probe of any name
InitDesc ==
    \E tgtArg \in DeviceRequests :
        LET r == Board__init__(<<>>, tgtArg, DeviceTargets, TRUE, "ok")
        IN /\ TARGET = r.TARGET
           /\ managed_ci = TRUE
           /\ options = <<>>
           /\ session_delegate = None
           /\ has_board = r.has_board
           /\ _target_type = r._target_type
           /\ _test_binary = r._test_binary
           /\ _delegate = r._delegate
           /\ _inited = r._inited
           /\ target = r.target
           /\ lastOp = "__init__"
           /\ arg = tgtArg
           /\ env = <<"ok">>
           /\ calls = r.calls
           /\ log = r.log
           /\ raised = r.raised
           /\ probe \in [vendor_name : ProbeNames, product_name : ProbeNames]
           /\ ret = <<>>
           /\ disconnects = 0
           /\ ready = FALSE

NextDesc == description

SpecDesc == InitDesc /\ [][NextDesc]_vars

----------------------------------------------------------------------------
(* Properties of uninit() and init() *)

Called(op) == Positions(calls, op) # {}

\* C1: once an uninit() call has invoked the target's disconnect operation,
\* the lifecycle flag is false when that uninit() returns, whether the
\* disconnect succeeded or failed.
C1_FlagClearedAfterDisconnect ==
    (lastOp = "uninit" /\ Called("target.disconnect")) => ~_inited

\* C2: between two consecutive successful init() calls, and after the last
\* one, the target's disconnect operation is invoked at most once however
\* often uninit() is called.
C2_TeardownAtMostOnce == disconnects <= 1

\* C3: uninit() never raises to its caller; when the target's disconnect
\* operation fails, uninit() logs the failure and returns normally.
C3_UninitNeverRaises ==
    lastOp = "uninit" =>
        /\ raised = NoExc
        /\ (Called("target.disconnect") /\ env[1] # "ok") =>
               (\E i \in DOMAIN log : log[i] = "error")

C3_Witness ==
    /\ lastOp = "uninit"
    /\ Called("target.disconnect")
    /\ env[1] = "BaseException"
    /\ raised = NoExc
    /\ log = <<"debug", "error">>

\* C4: when init() is called on a board whose lifecycle flag is false and
\* the target's own initialization fails, the failure propagates to the
\* caller, the flag is still false afterwards, and the post-connect hook is
\* not dispatched.
C4_TargetInitFailure ==
    [][\A willOk, didOk \in BOOLEAN :
          (/\ init(willOk, FALSE, didOk)
           /\ ~_inited
           /\ Positions(calls', "target.init") # {})
          => /\ raised' = Exc("TargetInitError", <<>>)
             /\ ~_inited'
             /\ Positions(calls', "did_connect") = {}]_vars

C4_Witness ==
    /\ lastOp = "init"
    /\ Called("target.init")
    /\ ~env[2]
    /\ raised = Exc("TargetInitError", <<>>)
    /\ ~_inited
    /\ _delegate = "d_both"

\* C5: in every init() call the pre-connect hook is dispatched strictly
\* before the target's init step and the post-connect hook strictly after
\* it; a hook is invoked only on a non-null delegate that defines it; a
\* delegate that is absent or lacks a hook causes no error and does not keep
\* the target's init step from running.
C5_HookOrder ==
    lastOp = "init" =>
        /\ \A i \in Positions(calls, "will_connect"),
              j \in Positions(calls, "target.init") : i < j
        /\ \A j \in Positions(calls, "target.init"),
              k \in Positions(calls, "did_connect") : j < k
        /\ \A i \in Positions(calls, "will_connect"),
              k \in Positions(calls, "did_connect") : Called("target.init") /\ i < k
        /\ \A h \in {"will_connect", "did_connect"} :
              Called(h) => (_delegate # None /\ hasattr(_delegate, h))
        /\ (_delegate = None \/ ~hasattr(_delegate, "will_connect"))
              => Called("target.init")
        /\ (_delegate = None \/ Attrs(_delegate) = {})
              => /\ calls = <<Call("target.init", <<>>)>>
                 /\ raised = IF env[2] THEN NoExc ELSE Exc("TargetInitError", <<>>)
        /\ (raised.type = "DelegateHookError")
              => \/ Called("will_connect") /\ ~env[1]
                 \/ Called("did_connect") /\ ~env[3]

C5_Witness ==
    /\ lastOp = "init"
    /\ calls = <<Call("will_connect", <<>>), Call("target.init", <<>>),
                 Call("did_connect", <<>>)>>
    /\ raised = NoExc

\* C6: uninit(), called when no init() has completed its target
\* initialization since construction or since the last successful teardown,
\* calls no target operation, leaves all board state unchanged and does not
\* raise.
C6_UninitNoop ==
    [][\A outcome \in DisconnectOutcomes :
          (uninit(outcome) /\ ~ready)
          => /\ calls' = <<>>
             /\ log' = <<>>
             /\ raised' = NoExc
             /\ UNCHANGED <<TARGET, options, session_delegate, has_board,
                            _target_type, _test_binary, _delegate, _inited,
                            target>>]_vars

C6_Witness ==
    /\ lastOp = "uninit"
    /\ ~ready
    /\ calls = <<>>
    /\ raised = NoExc
    /\ ~_inited

\* C7: whenever uninit() invokes the target's disconnect operation, the
\* resume argument is the session option resume_on_disconnect as it is at
\* that moment: true when the option is unset, the configured value when set.
C7_ResumeArgument ==
    lastOp = "uninit" =>
        \A i \in Positions(calls, "target.disconnect") :
            calls[i].arg = <<IF "resume_on_disconnect" \in DOMAIN options
                             THEN options["resume_on_disconnect"]
                             ELSE TRUE>>

C7_Witness ==
    /\ lastOp = "uninit"
    /\ "resume_on_disconnect" \notin DOMAIN options
    /\ calls = <<Call("target.disconnect", <<TRUE>>)>>

----------------------------------------------------------------------------
(* Properties of Board construction *)

\* the identifier a construction request stands for
RequestedId(tgtArg) == Lower(IF tgtArg = NoTarget THEN cortex_m ELSE tgtArg)

RegistryOps == {"TARGET.__contains__", "populate_target", "TARGET.__getitem__"}

\* C8: the identifier is lower-cased before any lookup or storage: the
\* stored target_type, the registry membership test, the query sent to the
\* managed pack source and the final registry lookup all use the lower-cased
\* identifier, so a request and its lower-cased spelling resolve identically
\* (same collaborator calls, same outcome).
C8_CaseInsensitive ==
    [][\A tgtArg \in TargetArgs, ctor \in CtorOutcomes :
          NewBoard(tgtArg, ctor)
          => /\ has_board' => (_target_type' = RequestedId(tgtArg))
             /\ \A i \in DOMAIN calls' :
                   (calls'[i].op \in RegistryOps) => (calls'[i].arg = RequestedId(tgtArg))
             /\ LET same == Board__init__(options, Lower(tgtArg), TARGET, managed_ci, ctor)
                IN /\ calls' = same.calls
                   /\ raised' = same.raised
                   /\ has_board' = same.has_board
                   /\ TARGET' = same.TARGET]_vars

Warnings == {i \in DOMAIN log : log[i] = "warning"}

C10_PackLoadedFirst ==
    (lastOp = "__init__" /\ "pack" \in DOMAIN options /\ options["pack"] \in Packs) =>
        /\ Positions(calls, "populate_targets_from_pack") = {1}
        /\ calls[1].arg = options["pack"]
        /\ \A i \in Positions(calls, "TARGET.__contains__")
                      \cup Positions(calls, "TARGET.__getitem__") : i > 1
        /\ (raised.type # "PackFormatError") =>
              \A id \in PackContents(options["pack"]) :
                  id \in DOMAIN TARGET /\ TARGET[id] = options["pack"]

C10_Witness ==
    /\ lastOp = "__init__"
    /\ "pack" \in DOMAIN options
    /\ options["pack"] = "pack_a"
    /\ arg = <<"A">>
    /\ RequestedId(arg) \in DOMAIN BuiltinTargets
    /\ calls[1] = Call("populate_targets_from_pack", "pack_a")
    /\ has_board
    /\ target = "pack_a"

\* C11: when the requested identifier is absent from the registry after the
\* pack sources have been consulted, Board construction fails with the
\* target-not-found error naming the normalized identifier, and no Board
\* object becomes available to the caller.
C11_MissingTargetFails ==
    (/\ lastOp = "__init__"
     /\ Called("TARGET.__getitem__")
     /\ RequestedId(arg) \notin DOMAIN TARGET)
    => /\ raised = Exc("TargetSupportError", RequestedId(arg))
       /\ ~has_board
       /\ target = None
       /\ ~Called("target_class")

C11_Witness ==
    /\ lastOp = "__init__"
    /\ arg = <<"A", "a">>
    /\ Called("populate_target")
    /\ <<"a", "a">> \notin DOMAIN TARGET
    /\ raised = Exc("TargetSupportError", <<"a", "a">>)
    /\ ~has_board

\* C12: when the registry holds the identifier but its constructor fails,
\* Board construction propagates that failure unchanged, distinct from the
\* missing-identifier error, for every kind of failure the constructor can
\* raise, a KeyError raised inside the constructor included.
C12_ConstructorFailurePropagates ==
    (lastOp = "__init__" /\ Called("target_class") /\ env[1] # "ok")
    => /\ raised = Exc(env[1], <<>>)
       /\ raised.type # "TargetSupportError"
       /\ ~has_board

----------------------------------------------------------------------------
(* Properties of repeated init() *)

\* C13: a re-init() performed after an uninit() behaves as the first init()
\* does: with the same session delegate and the same collaborator behaviour
\* it ends up with the delegate a first call adopts, dispatches the same hooks
\* in the same order, invokes the target's init step and ends with the same
\* lifecycle flag, whatever the outcome of the intervening disconnect was.
C13_ReinitLikeFirstInit ==
    [][\A willOk, initOk, didOk \in BOOLEAN :
          (/\ init(willOk, initOk, didOk)
           /\ lastOp = "uninit"
           /\ _delegate = AdoptDelegate(None, session_delegate))
          => LET first == init_run(None, session_delegate, FALSE,
                                   willOk, initOk, didOk)
             IN /\ _delegate' = first._delegate
                /\ calls' = first.calls
                /\ raised' = first.raised
                /\ _inited' = first._inited]_vars

----------------------------------------------------------------------------
(* Properties of Board.description *)

\* C14 as stated: the description is the probe's vendor name, a blank, the
\* probe's product name, a blank and the target type in square brackets,
\* with nothing before or after.
C14_DescriptionBare ==
    lastOp = "description" =>
        ret = probe.vendor_name \o <<" ">> \o probe.product_name
                \o <<" ", "[">> \o _target_type \o <<"]">>

\* C14 as amended: the description is the text "Generic board via "
\* followed by the vendor name, a blank, the product name, a blank and the
\* target type in square brackets, with nothing after; vendor ACME, product
\* Probe1 and target type nrf52 give "Generic board via ACME Probe1 [nrf52]".
C14_DescriptionPrefixed ==
    lastOp = "description" =>
        LET v == probe.vendor_name
            p == probe.product_name
            t == _target_type
            a == Len(GenericBoardVia)
            b == a + Len(v) + 1
            c == b + Len(p) + 2
        IN /\ Len(ret) = c + Len(t) + 1
           /\ SubSeq(ret, 1, a) = GenericBoardVia
           /\ SubSeq(ret, a + 1, b - 1) = v
           /\ ret[b] = " "
           /\ SubSeq(ret, b + 1, c - 2) = p
           /\ ret[c - 1] = " "
           /\ ret[c] = "["
           /\ SubSeq(ret, c + 1, c + Len(t)) = t
           /\ ret[c + Len(t) + 1] = "]"
           /\ (v = ACME /\ p = Probe1 /\ t = nrf52) =>
                 ret = <<"G", "e", "n", "e", "r", "i", "c", " ", "b", "o", "a",
                         "r", "d", " ", "v", "i", "a", " ", "A", "C", "M", "E",
                         " ", "P", "r", "o", "b", "e", "1", " ", "[", "n", "r",
                         "f", "5", "2", "]">>

C14_Witness ==
    /\ lastOp = "description"
    /\ probe = [vendor_name |-> ACME, product_name |-> Probe1]
    /\ _target_type = nrf52
    /\ Len(ret) = 37
    /\ ret[1] = "G"

----------------------------------------------------------------------------
(* More properties of Board construction *)

\* C15: during Board construction the managed pack source is queried at most
\* once, and it is queried exactly when the identifier is absent from the
\* registry once the explicit pack (if any) has been merged; a registered
\* identifier is never looked for in the managed source.
C15_ManagedOnlyIfMissing ==
    [][(lastOp' = "__init__" /\ NewBoard(arg', env'[1]))
          => LET supplied == "pack" \in DOMAIN options /\ options["pack"] \in Packs
                 loaded == IF supplied
                           THEN populate_targets_from_pack(TARGET, options["pack"])
                           ELSE [raised |-> NoExc, TARGET |-> TARGET]
                 asked == Positions(calls', "populate_target")
             IN /\ Cardinality(asked) <= 1
                /\ (loaded.raised = NoExc) =>
                      ((asked # {}) <=> (RequestedId(arg') \notin DOMAIN loaded.TARGET))
                /\ (loaded.raised # NoExc) => (asked = {})]_vars

C15_Witness ==
    /\ lastOp = "__init__"
    /\ "pack" \in DOMAIN options
    /\ options["pack"] = "pack_a"
    /\ arg = <<"A", "b">>
    /\ Len(calls) >= 3
    /\ calls[1].op = "populate_targets_from_pack"
    /\ calls[2].op = "TARGET.__contains__"
    /\ calls[3].op = "populate_target"
    /\ Cardinality(Positions(calls, "populate_target")) = 1

----------------------------------------------------------------------------
(* More properties of init() and uninit() *)

\* C16: init() adopts the session's delegate only when the Board has no
\* delegate and the session has one; init() never replaces a non-null
\* delegate of the Board, also when the session's delegate is another one,
\* and uninit() leaves the delegate alone.
C16_DelegateAdoptedOnce ==
    [][/\ \A willOk, initOk, didOk \in BOOLEAN :
             init(willOk, initOk, didOk)
             => /\ (_delegate # None) => (_delegate' = _delegate)
                /\ (_delegate = None /\ session_delegate # None)
                      => (_delegate' = session_delegate)
                /\ (_delegate = None /\ session_delegate = None)
                      => (_delegate' = None)
       /\ \A outcome \in DisconnectOutcomes :
             uninit(outcome) => (_delegate' = _delegate)]_vars

C16_Witness ==
    /\ lastOp = "init"
    /\ _delegate = "d_will"
    /\ session_delegate = "d_both"
    /\ calls = <<Call("will_connect", <<>>), Call("target.init", <<>>)>>

\* C17: a hook that raises is not caught, the failure leaves init(); when
\* the pre-connect hook raises, that init() call does not invoke the
\* target's init step, does not dispatch the post-connect hook, and leaves
\* the lifecycle flag as it was.
C17_HookFailurePropagates ==
    [][\A willOk, initOk, didOk \in BOOLEAN :
          init(willOk, initOk, didOk)
          => /\ (Positions(calls', "will_connect") # {} /\ ~willOk)
                   => /\ raised' = Exc("DelegateHookError", <<>>)
                      /\ calls' = <<Call("will_connect", <<>>)>>
                      /\ _inited' = _inited
             /\ (Positions(calls', "did_connect") # {} /\ ~didOk)
                   => raised' = Exc("DelegateHookError", <<>>)]_vars

C17_Witness ==
    /\ lastOp = "init"
    /\ ~env[1]
    /\ calls = <<Call("will_connect", <<>>)>>
    /\ raised = Exc("DelegateHookError", <<>>)
    /\ ~_inited

\* C19: the lifecycle flag becomes true exactly when the target's init step
\* returns, before the post-connect hook is dispatched; when that hook
\* raises, init() fails towards its caller with the flag true, and the next
\* uninit() still invokes the target's disconnect operation.
C19_FlagSetBeforePostHook ==
    [][/\ \A willOk, initOk, didOk \in BOOLEAN :
             init(willOk, initOk, didOk)
             => /\ _inited' = (_inited \/ (Positions(calls', "target.init") # {} /\ initOk))
                /\ (Positions(calls', "did_connect") # {} /\ ~didOk)
                      => (raised'.type = "DelegateHookError" /\ _inited')
       /\ \A outcome \in DisconnectOutcomes :
             (/\ uninit(outcome)
              /\ lastOp = "init"
              /\ Called("did_connect")
              /\ raised.type = "DelegateHookError")
             => calls' = <<Call("target.disconnect",
                                <<IF "resume_on_disconnect" \in DOMAIN options
                                  THEN options["resume_on_disconnect"]
                                  ELSE TRUE>>)>>]_vars

C19_Witness ==
    /\ lastOp = "init"
    /\ calls = <<Call("target.init", <<>>), Call("did_connect", <<>>)>>
    /\ ~env[3]
    /\ raised = Exc("DelegateHookError", <<>>)
    /\ _inited
    /\ disconnects = 0

\* C20: init() is not guarded by the lifecycle flag and never clears it: on
\* a board whose flag is true it dispatches the hooks and invokes the
\* target's init step again, and a failure of that step propagates with the
\* flag still true; the flag goes from true to false only by a successful
\* disconnect inside uninit().
C20_OnlyDisconnectClearsFlag ==
    [][/\ \A willOk, initOk, didOk \in BOOLEAN :
             (init(willOk, initOk, didOk) /\ _inited)
             => /\ _inited'
                /\ \A h \in {"will_connect", "did_connect"} :
                      (Positions(calls', h) # {}) => hasattr(_delegate', h)
                /\ (_delegate' # None /\ hasattr(_delegate', "will_connect"))
                      => (calls'[1] = Call("will_connect", <<>>))
                /\ (Positions(calls', "will_connect") = {} \/ willOk)
                      => (Positions(calls', "target.init") # {})
                /\ (Positions(calls', "target.init") # {} /\ ~initOk)
                      => (raised' = Exc("TargetInitError", <<>>))
                /\ (Positions(calls', "target.init") # {} /\ initOk
                      /\ _delegate' # None /\ hasattr(_delegate', "did_connect"))
                      => (Positions(calls', "did_connect") # {})
       /\ (_inited /\ ~_inited')
             => (uninit("ok") /\ Positions(calls', "target.disconnect") # {})]_vars

C20_Witness ==
    /\ lastOp = "init"
    /\ _inited
    /\ calls = <<Call("will_connect", <<>>), Call("target.init", <<>>)>>
    /\ ~env[2]
    /\ raised = Exc("TargetInitError", <<>>)

----------------------------------------------------------------------------
(* The empty target type *)

\* C18: an empty target-type string is treated like an absent one: Board
\* construction with the empty string resolves the identifier cortex_m, with
\* the generic-target warning, and does not look up the empty identifier.
C18_EmptyTreatedAsAbsent ==
    (lastOp = "__init__" /\ arg = <<>>) =>
        /\ \A i \in DOMAIN calls :
              (calls[i].op \in RegistryOps) => (calls[i].arg = cortex_m)
        /\ has_board => (_target_type = cortex_m /\ Cardinality(Warnings) = 1)
        /\ raised.type # "TargetSupportError"
====
